---- MODULE Spec2Model ----
(***************************************************************************)
(* Model of llmx.templates.TemplateManager: template resolution across the *)
(* system registry and the user-local directory, merging, {name} variable  *)
(* interpolation, template creation and the materialized temp copies with  *)
(* their deferred deletion.                                                *)
(*                                                                         *)
(* Python strings are sequences of one-character strings.                  *)
(***************************************************************************)
EXTENDS Integers, Sequences, FiniteSets, TLC

VARIABLES
    registry,          \* system registry: name -> document text, or NotFound
    userFiles,         \* user-local directory: name -> text of <name>.yaml, or Absent
    created,           \* history: name -> content last passed to create_template, or Absent
    tempFiles,         \* materialized temp copies: path id -> file text, or Absent
    timers,            \* deletion thread of each temp path: none, sleeping, unlinking,
                       \* done, or swallowed (ended in its exception handler)
    last,              \* the last TemplateManager call and what it returned
    registryUp,        \* whether the calls of the system registry answer, or raise
    dirExists,         \* whether the user-local templates directory exists
    alive,             \* whether the process (its main flow) is still running
    template_content,  \* interpolate_template_variables: argument template_content
    variables,         \* interpolate_template_variables: argument variables
    interpolated       \* interpolate_template_variables: its return value, or Pending

vars == <<registry, userFiles, created, tempFiles, timers, last,
          registryUp, dirExists, alive,
          template_content, variables, interpolated>>

storeVars == <<registry, userFiles, created, tempFiles, timers, last,
               registryUp, dirExists, alive>>
interpVars == <<template_content, variables, interpolated>>

(***************************************************************************)
(* Bounds                                                                  *)
(***************************************************************************)
MaxLen == 6          \* longest template_content given to interpolation
MaxContentLen == 3   \* longest content given to create_template in the round trip
MaxTemps == 2        \* temp copies made in one run

(***************************************************************************)
(* Python values and call outcomes                                         *)
(***************************************************************************)
NL == "\n"

PyStr(s) == [t |-> "str", s |-> s]
PyNone == [t |-> "none", s |-> <<>>]

Returned(v) == [status |-> "ok", val |-> v, named |-> ""]
Raised(exc, named) == [status |-> exc, val |-> PyNone, named |-> named]
Pending == [status |-> "pending", val |-> PyNone, named |-> ""]

(***************************************************************************)
(* String helpers                                                          *)
(***************************************************************************)
Strings(chars, n) == UNION {[1..k -> chars] : k \in 0..n}

StartsWith(s, prefix) ==
    Len(s) >= Len(prefix) /\ SubSeq(s, 1, Len(prefix)) = prefix

\* `sub in s`
Contains(s, sub) ==
    \E i \in 1..(Len(s) - Len(sub) + 1) : SubSeq(s, i, i + Len(sub) - 1) = sub

OccursAt(s, i, sub) ==
    i + Len(sub) - 1 <= Len(s) /\ SubSeq(s, i, i + Len(sub) - 1) = sub

RECURSIVE ReplaceFrom(_, _, _, _)
ReplaceFrom(s, i, old, new) ==
    IF i > Len(s) THEN <<>>
    ELSE IF OccursAt(s, i, old)
         THEN new \o ReplaceFrom(s, i + Len(old), old, new)
         ELSE <<s[i]>> \o ReplaceFrom(s, i + 1, old, new)

\* str.replace(old, new): every non-overlapping occurrence, left to right
Replace(s, old, new) == ReplaceFrom(s, 1, old, new)

(***************************************************************************)
(* interpolate_template_variables                                          *)
(***************************************************************************)
\* the characters of the model's alphabet that [a-zA-Z0-9_] matches
IdentChars == {"a", "b", "k", "p", "r", "o", "m", "t", "1"}

RECURSIVE IdentEnd(_, _)
IdentEnd(s, i) ==
    IF i <= Len(s) /\ s[i] \in IdentChars THEN IdentEnd(s, i + 1) ELSE i

\* the pattern \{([a-zA-Z0-9_]+)\} tried at position i: the index of the closing
\* brace of the match, 0 when there is no match at i
MatchEnd(s, i) ==
    IF i <= Len(s) /\ s[i] = "{"
    THEN LET j == IdentEnd(s, i + 1)
         IN  IF j > i + 1 /\ j <= Len(s) /\ s[j] = "}" THEN j ELSE 0
    ELSE 0

\* re.search from position i: the first match only
FindFirst(s, i) ==
    LET starts == {p \in i..Len(s) : MatchEnd(s, p) > 0}
    IN  IF starts = {} THEN <<>>
        ELSE LET p == CHOOSE q \in starts : \A r \in starts : q <= r
             IN  <<SubSeq(s, p + 1, MatchEnd(s, p) - 1)>>

\* re.findall(pattern, s) from position i: the var_name group of every
\* non-overlapping match, left to right (full_match is "{" var_name "}")
RECURSIVE FindAll(_, _)
FindAll(s, i) ==
    IF i > Len(s) THEN <<>>
    ELSE LET j == MatchEnd(s, i)
         IN  IF j > 0
             THEN <<SubSeq(s, i + 1, j - 1)>> \o FindAll(s, j + 1)
             ELSE FindAll(s, i + 1)

FullMatch(var_name) == <<"{">> \o var_name \o <<"}">>

\* variables.get(var_name, ""): an unknown placeholder is replaced by nothing
RECURSIVE ReplaceEachDefaultEmpty(_, _, _)
ReplaceEachDefaultEmpty(result, matches, mapping) ==
    IF matches = <<>> THEN result
    ELSE LET var_name == Head(matches)
             var_value == IF var_name \in DOMAIN mapping
                          THEN mapping[var_name] ELSE <<>>
         IN  ReplaceEachDefaultEmpty(
                 Replace(result, FullMatch(var_name), var_value),
                 Tail(matches), mapping)

\* the loop over matches: result = result.replace(full_match, var_value)
RECURSIVE ReplaceEach(_, _, _)
ReplaceEach(result, matches, mapping) ==
    IF matches = <<>> THEN result
    ELSE LET var_name == Head(matches)
         IN  ReplaceEach(
                 IF var_name \in DOMAIN mapping
                 THEN Replace(result, FullMatch(var_name), mapping[var_name])
                 ELSE result,
                 Tail(matches), mapping)

\* a variables argument: None, or a dict from names to strings
NoVariables == [isNone |-> TRUE, map |-> <<>>]
Dict(m) == [isNone |-> FALSE, map |-> m]
Falsy(v) == v.isNone \/ DOMAIN v.map = {}

\* the method without its `if not variables` guard: `var_name in None` raises
InterpolateUnguarded(tc, v) ==
    LET matches == FindAll(tc, 1)
    IN  IF v.isNone /\ matches # <<>> THEN Raised("TypeError", "")
        ELSE IF v.isNone THEN Returned(PyStr(tc))
        ELSE Returned(PyStr(ReplaceEach(tc, matches, v.map)))

interpolate_template_variables(tc, v) ==
    IF Falsy(v) THEN Returned(PyStr(tc))
    ELSE Returned(PyStr(ReplaceEach(tc, FindAll(tc, 1), v.map)))

(***************************************************************************)
(* Inputs of the interpolation specification                               *)
(***************************************************************************)
InterpChars == {"{", "}", "a", "b"}
VarKeys == {<<"a">>, <<"b">>}
VarValues == {<<>>, <<"b">>, <<"{", "b", "}">>}
VarMappings ==
    {NoVariables} \cup
    {Dict(m) : m \in UNION {[K -> VarValues] : K \in SUBSET VarKeys}}

InterpIdle ==
    /\ template_content = <<>>
    /\ variables = NoVariables
    /\ interpolated = Pending

(***************************************************************************)
(* yaml.safe_load, on the documents of this model                          *)
(*                                                                         *)
(* A parsed document is None, an int, a str, a list or a dict, or the      *)
(* parse raises yaml.YAMLError. The block scalar `prompt: |` that          *)
(* create_template writes is scanned as PyYAML's scan_block_scalar scans   *)
(* it; the other documents are one-line documents of the forms below.      *)
(***************************************************************************)
PromptWord == <<"p", "r", "o", "m", "p", "t">>
BlockHeader == PromptWord \o <<":", " ", "|", NL>>
Digits == {"1"}
EOF == "EOF"

Parsed(kind, text, items, prompt) ==
    [kind |-> kind, text |-> text, items |-> items, prompt |-> prompt]
YamlError == Parsed("error", <<>>, {}, PyNone)
YamlNone == Parsed("none", <<>>, {}, PyNone)
YamlInt(digits) == Parsed("int", digits, {}, PyNone)
YamlStr(text) == Parsed("str", text, {}, PyNone)
YamlList(items) == Parsed("list", <<>>, items, PyNone)
YamlDict(keys, prompt) == Parsed("dict", <<>>, keys, prompt)

Max(a, b) == IF a >= b THEN a ELSE b
Peek(s, i) == IF i <= Len(s) THEN s[i] ELSE EOF
AllIn(s, chars) == \A k \in 1..Len(s) : s[k] \in chars

\* the scanner's column at position i: characters since the last line break
RECURSIVE Column(_, _)
Column(s, i) ==
    IF i <= 1 \/ (i - 1 <= Len(s) /\ s[i - 1] = NL) THEN 0
    ELSE 1 + Column(s, i - 1)

\* first index at or after i that holds a line break, Len(s) + 1 if none
RECURSIVE LineEnd(_, _)
LineEnd(s, i) == IF i > Len(s) \/ s[i] = NL THEN i ELSE LineEnd(s, i + 1)

RECURSIVE scan_block_scalar_indentation(_, _, _, _)
scan_block_scalar_indentation(s, i, chunks, max_indent) ==
    IF Peek(s, i) = NL
    THEN scan_block_scalar_indentation(s, i + 1, Append(chunks, NL), max_indent)
    ELSE IF Peek(s, i) = " "
    THEN scan_block_scalar_indentation(s, i + 1, chunks,
                                       Max(max_indent, Column(s, i + 1)))
    ELSE [chunks |-> chunks, max_indent |-> max_indent, pos |-> i]

RECURSIVE SkipIndent(_, _, _)
SkipIndent(s, i, indent) ==
    IF Column(s, i) < indent /\ Peek(s, i) = " "
    THEN SkipIndent(s, i + 1, indent) ELSE i

RECURSIVE scan_block_scalar_breaks(_, _, _, _)
BreaksFrom(s, j, indent, chunks) ==
    IF Peek(s, j) = NL
    THEN scan_block_scalar_breaks(s, j + 1, indent, Append(chunks, NL))
    ELSE [chunks |-> chunks, pos |-> j]

scan_block_scalar_breaks(s, i, indent, chunks) ==
    BreaksFrom(s, SkipIndent(s, i, indent), indent, chunks)

\* the loop of scan_block_scalar over the lines of a literal scalar, and the
\* clip chomping that ends it: the last line keeps one line break, the empty
\* lines after it are dropped. BlockLines is the loop's test, TakeLine reads a
\* line up to its end e, AfterLine holds the breaks b scanned after it.
RECURSIVE BlockLines(_, _, _, _, _)
AfterLine(s, indent, taken, b) ==
    IF Column(s, b.pos) = indent /\ Peek(s, b.pos) # EOF
    THEN BlockLines(s, b.pos, indent, taken, b.chunks)
    ELSE [value |-> taken, pos |-> b.pos]

TakeLine(s, i, indent, chunks, breaks, e) ==
    AfterLine(s, indent,
              chunks \o breaks \o SubSeq(s, i, e - 1)
                  \o (IF e <= Len(s) THEN <<NL>> ELSE <<>>),
              scan_block_scalar_breaks(s, IF e <= Len(s) THEN e + 1 ELSE e,
                                       indent, <<>>))

BlockLines(s, i, indent, chunks, breaks) ==
    IF Column(s, i) = indent /\ Peek(s, i) # EOF
    THEN TakeLine(s, i, indent, chunks, breaks, LineEnd(s, i))
    ELSE [value |-> chunks, pos |-> i]

\* `prompt: |` at column 0 (the mapping's indent is 0, so the scalar's is at
\* least 1) with no indentation indicator
ScalarAfter(s, ind) ==
    BlockLines(s, ind.pos, Max(1, ind.max_indent), <<>>, ind.chunks)

scan_block_scalar(s) ==
    ScalarAfter(s, scan_block_scalar_indentation(s, Len(BlockHeader) + 1, <<>>, 0))

\* a document that starts with the block header: the mapping {prompt: <scalar>}
\* when the scalar runs to the end of the text; text left over after the scalar
\* (a line indented less than the scalar, deeper than the key) is a parser error
BlockDocument(s, scalar) ==
    IF scalar.pos > Len(s)
    THEN YamlDict({PromptWord}, PyStr(scalar.value))
    ELSE YamlError

LoadBlockDocument(s) == BlockDocument(s, scan_block_scalar(s))

IsWord(s) == s # <<>> /\ AllIn(s, IdentChars)

\* index of the first ": " of s, 0 if none
RECURSIVE ColonSpaceFrom(_, _)
ColonSpaceFrom(s, i) ==
    IF i >= Len(s) THEN 0
    ELSE IF s[i] = ":" /\ s[i + 1] = " " THEN i
    ELSE ColonSpaceFrom(s, i + 1)

\* a one-line document, c the index of its first ": "
LoadLine(s, c) ==
    IF AllIn(s, {" ", NL}) THEN YamlNone                       \* empty document
    ELSE IF AllIn(s, Digits) THEN YamlInt(s)                   \* 1
    ELSE IF IsWord(s) THEN YamlStr(s)                          \* a
    ELSE IF Len(s) > 2 /\ Head(s) = "{" /\ s[Len(s)] = "}"
            /\ IsWord(SubSeq(s, 2, Len(s) - 1))                \* {k}
         THEN YamlDict({SubSeq(s, 2, Len(s) - 1)}, PyNone)
    ELSE IF Len(s) > 2 /\ Head(s) = "[" /\ s[Len(s)] = "]"
            /\ IsWord(SubSeq(s, 2, Len(s) - 1))                \* [a]
         THEN YamlList({SubSeq(s, 2, Len(s) - 1)})
    ELSE IF c > 1 /\ IsWord(SubSeq(s, 1, c - 1))
            /\ IsWord(SubSeq(s, c + 2, Len(s)))
            /\ ~AllIn(SubSeq(s, c + 2, Len(s)), Digits)        \* k: v
         THEN YamlDict({SubSeq(s, 1, c - 1)}, PyStr(SubSeq(s, c + 2, Len(s))))
    ELSE IF Len(s) > 1 /\ s[Len(s)] = ":" /\ IsWord(SubSeq(s, 1, Len(s) - 1))
         THEN YamlDict({SubSeq(s, 1, Len(s) - 1)}, PyNone)     \* k:
    ELSE IF AllIn(s, IdentChars \cup {":"}) /\ Head(s) # ":"
            /\ s[Len(s)] # ":"                                 \* k:v, a plain scalar
         THEN YamlStr(s)
    ELSE YamlError                                             \* {a

YamlLoad(s) ==
    IF StartsWith(s, BlockHeader) THEN LoadBlockDocument(s)
    ELSE LoadLine(s, ColonSpaceFrom(s, 1))

(***************************************************************************)
(* The prompt extraction of get_template_content                           *)
(***************************************************************************)
\* bool(template_data)
Truthy(d) ==
    CASE d.kind = "none" -> FALSE
      [] d.kind = "int" -> ~AllIn(d.text, {"0"})
      [] d.kind = "str" -> d.text # <<>>
      [] OTHER -> d.items # {}

\* `template_data and "prompt" in template_data`, then template_data["prompt"];
\* `in` raises TypeError on an int, the subscript raises TypeError on a str
\* or a list; a YAMLError and a document without the key give the content
PromptIn(content, template_data) ==
    IF template_data.kind = "error" THEN Returned(PyStr(content))
    ELSE IF ~Truthy(template_data) THEN Returned(PyStr(content))
    ELSE IF template_data.kind = "int" THEN Raised("TypeError", "")
    ELSE IF template_data.kind = "str"
    THEN IF Contains(template_data.text, PromptWord)
         THEN Raised("TypeError", "") ELSE Returned(PyStr(content))
    ELSE IF PromptWord \in template_data.items
    THEN IF template_data.kind = "dict"
         THEN Returned(template_data.prompt) ELSE Raised("TypeError", "")
    ELSE Returned(PyStr(content))

ExtractPrompt(content) == PromptIn(content, YamlLoad(content))

(***************************************************************************)
(* The text create_template writes                                         *)
(***************************************************************************)
\* str.strip() of the model's whitespace
RECURSIVE FirstInk(_, _)
FirstInk(s, i) ==
    IF i > Len(s) \/ s[i] \notin {" ", NL} THEN i ELSE FirstInk(s, i + 1)
RECURSIVE LastInk(_, _)
LastInk(s, i) ==
    IF i < 1 \/ s[i] \notin {" ", NL} THEN i ELSE LastInk(s, i - 1)
Strip(s) == SubSeq(s, FirstInk(s, 1), LastInk(s, Len(s)))

\* what create_template writes to <name>.yaml
LooksLikeYaml(content) ==
    \/ StartsWith(Strip(content), <<"{">>)
    \/ StartsWith(Strip(content), PromptWord \o <<":">>)

WrittenText(content) ==
    IF LooksLikeYaml(content) THEN content
    ELSE PromptWord \o <<":", " ", "|", NL, " ", " ">>
         \o Replace(content, <<NL>>, <<NL, " ", " ">>)

(***************************************************************************)
(* Documents of the model                                                  *)
(***************************************************************************)
DocPromptA == PromptWord \o <<":", " ", "a">>      \* prompt: a
DocPromptB == PromptWord \o <<":", " ", "b">>      \* prompt: b
DocNoPrompt == <<"k", ":", " ", "a">>              \* k: a
DocInt == <<"1">>                                  \* 1
DocScalar == PromptWord \o <<":", "a">>            \* prompt:a  (a plain scalar)
DocMalformed == <<"{", "a">>                       \* {a
DocPlain == <<"a">>                                \* a

SystemDocs == {DocPromptB, DocNoPrompt, DocInt}
CreateContents == {DocPlain, DocPromptA, DocScalar, DocMalformed}

\* the characters of the contents of the round trip
ContentChars == {"a", " ", NL}

(***************************************************************************)
(* The template store                                                      *)
(***************************************************************************)
Names == {"t1", "t2"}

File(text) == [exists |-> TRUE, text |-> text]
Absent == [exists |-> FALSE, text |-> <<>>]

Tiered(outcome, tier) == [out |-> outcome, tier |-> tier]

\* f"{value}": str(value)
Format(v) == IF v.t = "none" THEN <<"N", "o", "n", "e">> ELSE v.s

\* the system half of get_template_content: llm.get_template(name), and for a
\* truthy content the prompt extraction, with every exception swallowed by
\* `except Exception: pass`; FellThrough when the method goes on to the user
\* template
FellThrough == [status |-> "fallthrough", val |-> PyNone, named |-> ""]
Swallowed(got) == IF got.status = "ok" THEN got ELSE FellThrough

SystemContent(reg, name, raw) ==
    IF reg[name].exists /\ reg[name].text # <<>>
    THEN IF raw THEN Returned(PyStr(reg[name].text))
         ELSE Swallowed(ExtractPrompt(reg[name].text))
    ELSE FellThrough

\* the user half of get_template_content: nothing catches what the
\* extraction raises
UserContent(files, name, raw) ==
    IF raw THEN Returned(PyStr(files[name].text))
    ELSE ExtractPrompt(files[name].text)

\* the method after its system half returned `system`
SystemFirst(files, name, raw, system) ==
    IF system.status = "ok" THEN Tiered(system, "system")
    ELSE IF files[name].exists THEN Tiered(UserContent(files, name, raw), "user")
    ELSE Tiered(Raised("ValueError", name), "none")

get_template_content(reg, files, name, raw) ==
    SystemFirst(files, name, raw, SystemContent(reg, name, raw))

\* f"{content1}\n\n{content2}", unless one of the lookups raised
Joined(content1, content2) ==
    IF content1.status # "ok" THEN content1
    ELSE IF content2.status # "ok" THEN content2
    ELSE Returned(PyStr(Format(content1.val) \o <<NL, NL>> \o Format(content2.val)))

merge_templates(reg, files, template1, template2) ==
    Joined(get_template_content(reg, files, template1, FALSE).out,
           get_template_content(reg, files, template2, FALSE).out)

\* the paths get_template_path returns
NoPath == [kind |-> "none", name |-> "", id |-> 0]
UserPath(name) == [kind |-> "user", name |-> name, id |-> 0]
TempPath(id) == [kind |-> "temp", name |-> "", id |-> id]

\* where get_template_path finds the template: the user file first, then a
\* truthy llm.get_template(name)
PathTier(reg, files, name) ==
    IF files[name].exists THEN "user"
    ELSE IF reg[name].exists /\ reg[name].text # <<>> THEN "system"
    ELSE "none"

TempIds == 1..MaxTemps

NoCall ==
    [op |-> "none", name |-> "", name2 |-> "", raw |-> FALSE, content |-> <<>>,
     out |-> Pending, tier |-> "none", path |-> NoPath, prior |-> Absent]

StoreIdle ==
    /\ userFiles = [n \in Names |-> Absent]
    /\ created = [n \in Names |-> Absent]
    /\ tempFiles = [p \in TempIds |-> Absent]
    /\ timers = [p \in TempIds |-> "none"]
    /\ last = NoCall
    /\ alive = TRUE

\* a write in append mode: the text is added to what the file held
AppendText(files, name, text) ==
    [files EXCEPT ![name] = File(files[name].text \o text)]

\* Path.write_text: the file holds the text, whatever it held
write_text(files, name, text) ==
    [files EXCEPT ![name] = File(text)]

\* a removal of the whole directory of the path
UnlinkAll(files, p) == [q \in DOMAIN files |-> Absent]

\* Path.unlink: the file of that path is gone, no other
unlink(files, p) == [files EXCEPT ![p] = Absent]

\* delete_file without its handler: the FileNotFoundError of unlink ends the
\* thread as an unhandled exception
AfterUnlinkUnhandled(file) == IF file.exists THEN "done" ELSE "raised"

\* how delete_file ends after file_path.unlink(): unlink raises
\* FileNotFoundError for a file that is gone, and `except Exception: pass`
\* swallows it
AfterUnlink(file) == IF file.exists THEN "done" ELSE "swallowed"

\* the order in which the registry and the directory enumerate names, and the
\* order of names as strings
Listing == <<"t2", "t1">>
Rank(name) == IF name = "t1" THEN 1 ELSE IF name = "t2" THEN 2 ELSE 3

PyList(items) == [s |-> items, t |-> "list"]
Elements(xs) == {xs[i] : i \in DOMAIN xs}

\* llm.get_templates(): the names the registry holds
get_templates(reg) == SelectSeq(Listing, LAMBDA n : reg[n].exists)

\* [f.stem for f in templates_path.glob("*.yaml")], [] without the directory
Stems(dir, files) ==
    IF dir THEN SelectSeq(Listing, LAMBDA n : files[n].exists) ELSE <<>>

\* list(set(xs)): every element once
RECURSIVE Distinct(_)
Distinct(xs) ==
    IF xs = <<>> THEN <<>>
    ELSE IF \E i \in 2..Len(xs) : xs[i] = Head(xs) THEN Distinct(Tail(xs))
    ELSE <<Head(xs)>> \o Distinct(Tail(xs))

Insert(x, ys) ==
    SelectSeq(ys, LAMBDA y : Rank(y) < Rank(x)) \o <<x>>
        \o SelectSeq(ys, LAMBDA y : Rank(y) >= Rank(x))

\* sorted(xs)
RECURSIVE Sorted(_)
Sorted(xs) == IF xs = <<>> THEN <<>> ELSE Insert(Head(xs), Sorted(Tail(xs)))

\* list_templates: llm.get_templates() is called outside any handler, so what
\* an unavailable registry raises reaches the caller
list_templates(up, reg, dir, files) ==
    IF ~up THEN Raised("Exception", "")
    ELSE Returned(PyList(Sorted(Distinct(get_templates(reg) \o Stems(dir, files)))))

\* the -s option of the command line: a template name or a literal text
Literal == "hi"
SystemOptions == Names \cup {Literal}
TextOf(option) ==
    IF option = "t1" THEN <<"t", "1">>
    ELSE IF option = "t2" THEN <<"t", "2">>
    ELSE <<"h", "i">>

\* build_llm_params, the system prompt: the option is resolved when
\* list_templates() has it, and is the prompt itself otherwise
SystemPrompt(listed, reg, files, system) ==
    IF listed.status # "ok" THEN listed
    ELSE IF system \in Elements(listed.val.s)
    THEN get_template_content(reg, files, system, FALSE).out
    ELSE Returned(PyStr(TextOf(system)))

(***************************************************************************)
(* Operations                                                              *)
(***************************************************************************)
ContentCall(name, raw, got) ==
    [NoCall EXCEPT !.op = "get_template_content", !.name = name, !.raw = raw,
                   !.out = got.out, !.tier = got.tier]

GetTemplateContent(name, raw) ==
    /\ alive
    /\ last' = ContentCall(name, raw,
                           get_template_content(registry, userFiles, name, raw))
    /\ UNCHANGED <<registry, userFiles, created, tempFiles, timers>>
    /\ UNCHANGED <<registryUp, dirExists, alive>>
    /\ UNCHANGED interpVars

MergeTemplates(template1, template2) ==
    /\ alive
    /\ last' = [NoCall EXCEPT !.op = "merge_templates", !.name = template1,
                   !.name2 = template2,
                   !.out = merge_templates(registry, userFiles, template1, template2)]
    /\ UNCHANGED <<registry, userFiles, created, tempFiles, timers>>
    /\ UNCHANGED <<registryUp, dirExists, alive>>
    /\ UNCHANGED interpVars

CreateTemplate(name, content) ==
    /\ alive
    /\ dirExists' = TRUE
    /\ userFiles' = write_text(userFiles, name, WrittenText(content))
    /\ created' = [created EXCEPT ![name] = File(content)]
    /\ last' = [NoCall EXCEPT !.op = "create_template", !.name = name,
                   !.content = content, !.out = Returned(PyNone),
                   !.path = UserPath(name), !.prior = userFiles[name]]
    /\ UNCHANGED <<registry, tempFiles, timers>>
    /\ UNCHANGED <<registryUp, alive>>
    /\ UNCHANGED interpVars

\* a fixed temp path, the same for every copy
FirstTemp == CHOOSE p \in TempIds : \A q \in TempIds : p <= q

\* mkstemp gives a path no file has; the model's paths are the unused ids
FreshTemp ==
    CHOOSE p \in TempIds :
        timers[p] = "none" /\ \A q \in TempIds : timers[q] = "none" => p <= q

GetTemplatePath(name) ==
    /\ alive
    /\ PathTier(registry, userFiles, name) = "system" =>
           \E p \in TempIds : timers[p] = "none"
    /\ IF PathTier(registry, userFiles, name) = "user"
       THEN /\ last' = [NoCall EXCEPT !.op = "get_template_path", !.name = name,
                           !.out = Returned(PyNone), !.tier = "user",
                           !.path = UserPath(name)]
            /\ UNCHANGED <<tempFiles, timers>>
       ELSE IF PathTier(registry, userFiles, name) = "system"
       THEN /\ tempFiles' = [tempFiles EXCEPT ![FreshTemp] = File(registry[name].text)]
            /\ timers' = [timers EXCEPT ![FreshTemp] = "sleeping"]
            /\ last' = [NoCall EXCEPT !.op = "get_template_path", !.name = name,
                           !.out = Returned(PyNone), !.tier = "system",
                           !.path = TempPath(FreshTemp)]
       ELSE /\ last' = [NoCall EXCEPT !.op = "get_template_path", !.name = name,
                           !.out = Returned(PyNone)]
            /\ UNCHANGED <<tempFiles, timers>>
    /\ UNCHANGED <<registry, userFiles, created>>
    /\ UNCHANGED <<registryUp, dirExists, alive>>
    /\ UNCHANGED interpVars

\* the deletion thread, a daemon thread that ends with the process:
\* time.sleep(delay) ends and file_path.exists() is read
TimerWake(p) ==
    /\ alive
    /\ timers[p] = "sleeping"
    /\ timers' = [timers EXCEPT ![p] = IF tempFiles[p].exists THEN "unlinking" ELSE "done"]
    /\ UNCHANGED <<registry, userFiles, created, tempFiles, last>>
    /\ UNCHANGED <<registryUp, dirExists, alive>>
    /\ UNCHANGED interpVars

\* file_path.unlink(); what it raises is swallowed by `except Exception: pass`
TimerUnlink(p) ==
    /\ alive
    /\ timers[p] = "unlinking"
    /\ tempFiles' = unlink(tempFiles, p)
    /\ timers' = [timers EXCEPT ![p] = AfterUnlink(tempFiles[p])]
    /\ UNCHANGED <<registry, userFiles, created, last>>
    /\ UNCHANGED <<registryUp, dirExists, alive>>
    /\ UNCHANGED interpVars

ListTemplates ==
    /\ alive
    /\ last' = [NoCall EXCEPT !.op = "list_templates",
                   !.out = list_templates(registryUp, registry, dirExists, userFiles)]
    /\ UNCHANGED <<registry, userFiles, created, tempFiles, timers>>
    /\ UNCHANGED <<registryUp, dirExists, alive>>
    /\ UNCHANGED interpVars

\* a run of the command line with -s: build_llm_params makes a
\* TemplateManager, whose constructor makes the templates directory, and is
\* called outside any handler, so what it raises ends the run
BuildLlmParams(system) ==
    /\ alive
    /\ dirExists' = TRUE
    /\ last' = [NoCall EXCEPT !.op = "build_llm_params", !.name = system,
                   !.out = SystemPrompt(
                       list_templates(registryUp, registry, TRUE, userFiles),
                       registry, userFiles, system)]
    /\ UNCHANGED <<registry, userFiles, created, tempFiles, timers>>
    /\ UNCHANGED <<registryUp, alive>>
    /\ UNCHANGED interpVars

\* the caller, or anyone, removes a temp copy
ExternalUnlink(p) ==
    /\ tempFiles[p].exists
    /\ tempFiles' = [tempFiles EXCEPT ![p] = Absent]
    /\ UNCHANGED <<registry, userFiles, created, timers, last>>
    /\ UNCHANGED <<registryUp, dirExists, alive>>
    /\ UNCHANGED interpVars

\* the main flow ends: the process exits and its daemon threads end with it
ProcessExit ==
    /\ alive
    /\ alive' = FALSE
    /\ UNCHANGED <<registry, userFiles, created, tempFiles, timers, last>>
    /\ UNCHANGED <<registryUp, dirExists>>
    /\ UNCHANGED interpVars

\* the registry holds any system document under t1, and under t2 a
\* well-formed one or nothing
Registries ==
    {[n \in Names |-> IF n = "t1" THEN one ELSE two] :
        one \in {Absent} \cup {File(d) : d \in SystemDocs},
        two \in {Absent, File(DocPromptB)}}

\* an unavailable registry shows no name: llm.get_template raises for each
Unavailable == [n \in Names |-> Absent]

Init ==
    /\ registryUp \in BOOLEAN
    /\ registry \in (IF registryUp THEN Registries ELSE {Unavailable})
    /\ dirExists \in BOOLEAN
    /\ StoreIdle
    /\ InterpIdle

Next ==
    \/ \E name \in Names, raw \in BOOLEAN : GetTemplateContent(name, raw)
    \/ \E name \in Names : GetTemplatePath(name)
    \/ \E template1, template2 \in Names : MergeTemplates(template1, template2)
    \/ \E name \in Names, content \in CreateContents : CreateTemplate(name, content)
    \/ ListTemplates
    \/ \E system \in SystemOptions : BuildLlmParams(system)

Spec == Init /\ [][Next]_vars

(***************************************************************************)
(* Specification of the temp copies in their environment: path lookups,    *)
(* the deletion threads, removals of a copy by the caller or anyone, and    *)
(* the end of the process                                                  *)
(***************************************************************************)
InitTemps ==
    /\ registryUp = TRUE
    /\ dirExists = TRUE
    /\ registry \in Registries
    /\ StoreIdle
    /\ InterpIdle

NextTemps ==
    \/ \E name \in Names : GetTemplatePath(name)
    \/ \E name \in Names : CreateTemplate(name, DocPlain)
    \/ \E p \in TempIds : TimerWake(p)
    \/ \E p \in TempIds : TimerUnlink(p)
    \/ \E p \in TempIds : ExternalUnlink(p)
    \/ ProcessExit

\* the deletion threads run while the process does
Fairness ==
    \A p \in TempIds : WF_vars(TimerWake(p)) /\ WF_vars(TimerUnlink(p))

SpecTemps == InitTemps /\ [][NextTemps]_vars /\ Fairness

(***************************************************************************)
(* Specification of create_template followed by get_template_content, over *)
(* every content up to MaxContentLen characters                            *)
(***************************************************************************)
InitRoundTrip ==
    /\ registryUp = TRUE
    /\ dirExists = TRUE
    /\ registry \in [Names -> {Absent, File(DocPromptB)}]
    /\ StoreIdle
    /\ InterpIdle

NextRoundTrip ==
    \/ \E content \in Strings(ContentChars, MaxContentLen) : CreateTemplate("t1", content)
    \/ GetTemplateContent("t1", FALSE)

SpecRoundTrip == InitRoundTrip /\ [][NextRoundTrip]_vars

(***************************************************************************)
(* Specification of the pure function interpolate_template_variables       *)
(***************************************************************************)
InitInterp ==
    /\ registryUp = TRUE
    /\ dirExists = TRUE
    /\ registry = [n \in Names |-> Absent]
    /\ StoreIdle
    /\ template_content \in Strings(InterpChars, MaxLen)
    /\ variables \in VarMappings
    /\ interpolated = Pending

Interpolate ==
    /\ interpolated = Pending
    /\ interpolated' = interpolate_template_variables(template_content, variables)
    /\ UNCHANGED <<template_content, variables>>
    /\ UNCHANGED storeVars

NextInterp == Interpolate

SpecInterp == InitInterp /\ [][NextInterp]_vars

(***************************************************************************)
(* Claims about interpolation                                              *)
(***************************************************************************)
Done == interpolated.status # "pending"
Out == interpolated.val.s
Placeholders == FindAll(template_content, 1)
Known(name) == ~variables.isNone /\ name \in DOMAIN variables.map

\* flat single-pass substitution: every placeholder that is a key is replaced
\* by its value, everything else is copied, nothing inserted is looked at again
RECURSIVE SinglePass(_, _, _)
SinglePass(s, i, mapping) ==
    IF i > Len(s) THEN <<>>
    ELSE LET j == MatchEnd(s, i)
         IN  IF j = 0 THEN <<s[i]>> \o SinglePass(s, i + 1, mapping)
             ELSE IF SubSeq(s, i + 1, j - 1) \in DOMAIN mapping
                  THEN mapping[SubSeq(s, i + 1, j - 1)] \o SinglePass(s, j + 1, mapping)
                  ELSE SubSeq(s, i, j) \o SinglePass(s, j + 1, mapping)

AllPlaceholdersKnown ==
    /\ ~variables.isNone
    /\ \A k \in 1..Len(Placeholders) : Placeholders[k] \in DOMAIN variables.map

\* the text with every value put verbatim in place of its placeholder
Substituted == SinglePass(template_content, 1, variables.map)

\* C5 as stated: when every placeholder of s is a key of v, interpolate(s, v)
\* holds no placeholder token and is s with each placeholder replaced, at its
\* place, by its variable's value.
C5_AsStated ==
    (Done /\ AllPlaceholdersKnown) =>
        /\ interpolated.status = "ok"
        /\ FindAll(Out, 1) = <<>>
        /\ Out = Substituted

\* C5 amended: when every placeholder of s is a key of v and the text with
\* each value put verbatim in place of its placeholder holds no placeholder
\* token, interpolate(s, v) is that text (every occurrence replaced).
C5_NoPlaceholderLeft ==
    (Done /\ AllPlaceholdersKnown /\ FindAll(Substituted, 1) = <<>>) =>
        /\ interpolated.status = "ok"
        /\ FindAll(Out, 1) = <<>>
        /\ Out = Substituted

C5_Witness ==
    /\ Done /\ AllPlaceholdersKnown /\ FindAll(Substituted, 1) = <<>>
    /\ \E i, j \in 1..Len(Placeholders) :
          /\ i < j
          /\ Placeholders[i] = Placeholders[j]
          /\ variables.map[Placeholders[i]] # <<>>
    /\ Out = Substituted

\* C6: interpolation is flat and single-pass: the result is the single-pass
\* substitution of the input, so an inserted value is never substituted again.
C6_SinglePass ==
    (Done /\ ~variables.isNone) =>
        /\ interpolated.status = "ok"
        /\ Out = Substituted

RECURSIVE IsSubsequence(_, _)
IsSubsequence(xs, ys) ==
    IF xs = <<>> THEN TRUE
    ELSE IF ys = <<>> THEN FALSE
    ELSE IF Head(xs) = Head(ys) THEN IsSubsequence(Tail(xs), Tail(ys))
    ELSE IsSubsequence(xs, Tail(ys))

UnknownPlaceholders == SelectSeq(Placeholders, LAMBDA name : ~Known(name))

\* C7: with a non-empty mapping no error is raised, the placeholders of the
\* input that are not keys are all still in the result, in their order, and an
\* input without any placeholder that is a key is returned as it is.
C7_UnknownUntouched ==
    (Done /\ ~Falsy(variables)) =>
        /\ interpolated.status = "ok"
        /\ IsSubsequence(UnknownPlaceholders, FindAll(Out, 1))
        /\ (UnknownPlaceholders = Placeholders => Out = template_content)

C7_Witness ==
    /\ Done /\ ~Falsy(variables)
    /\ UnknownPlaceholders # <<>>
    /\ UnknownPlaceholders # Placeholders
    /\ Out # template_content

\* C8: with an empty mapping or None, the input is returned as it is.
C8_EmptyIsNoOp ==
    (Done /\ Falsy(variables)) =>
        /\ interpolated.status = "ok"
        /\ Out = template_content

C8_Witness ==
    /\ Done /\ variables.isNone
    /\ Placeholders # <<>>
    /\ Out = template_content
(***************************************************************************)
(* Claims about the template store                                         *)
(***************************************************************************)
Resolved == last.op = "get_template_content" /\ ~last.raw
InRegistry(name) == registry[name].exists
InUserDir(name) == userFiles[name].exists
Exists(name) == InRegistry(name) \/ InUserDir(name)
NotFound(out, name) == out.status = "ValueError" /\ out.named = name

\* the prompt body of a stored document: its prompt value when the parsed
\* document is a mapping with that key, the document itself otherwise
Body(text) ==
    IF YamlLoad(text).kind = "dict" /\ PromptWord \in YamlLoad(text).items
    THEN YamlLoad(text).prompt
    ELSE PyStr(text)

BodiesOf(name) ==
    {Body(registry[name].text) : x \in {1} \cap {IF InRegistry(name) THEN 1 ELSE 0}}
    \cup {Body(userFiles[name].text) : x \in {1} \cap {IF InUserDir(name) THEN 1 ELSE 0}}

\* C1: resolve fails with the not-found ValueError naming the template exactly
\* when the name is neither in the registry nor a file of the user directory.
C1_NotFoundIffMissing ==
    Resolved => (NotFound(last.out, last.name) <=> ~Exists(last.name))

\* C2: for a name found in a tier, resolve returns the prompt value of that
\* tier's document when it has one and the document itself otherwise, in the
\* system tier and in the user tier alike.
C2_PromptOrRaw ==
    (Resolved /\ Exists(last.name)) =>
        /\ last.out.status = "ok"
        /\ last.out.val \in BodiesOf(last.name)

\* C3: resolve of a name that exists in a tier returns a body whatever the
\* stored document is, and resolve never fails other than by not-found.
C3_OnlyNotFound ==
    Resolved =>
        /\ last.out.status \in {"ok", "ValueError"}
        /\ Exists(last.name) => last.out.status = "ok"

ResolveOf(name) == get_template_content(registry, userFiles, name, FALSE).out

\* C4: merge is the first body, a blank line, the second body whenever both
\* names resolve, and fails with not-found when either name is missing.
C4_MergeIsConcat ==
    last.op = "merge_templates" =>
        /\ (ResolveOf(last.name).status = "ok" /\ ResolveOf(last.name2).status = "ok") =>
               last.out = Returned(PyStr(Format(ResolveOf(last.name).val) \o <<NL, NL>>
                                         \o Format(ResolveOf(last.name2).val)))
        /\ (~Exists(last.name) \/ ~Exists(last.name2)) =>
               last.out.status = "ValueError"

NoPromptWrapper(content) == ~StartsWith(Strip(content), PromptWord \o <<":">>)

\* C9: resolve right after create(name, content) returns content, for every
\* content without a `prompt:` wrapper (stated for a name the registry does not
\* hold, so that the user-local file is the one resolved).
C9_RoundTrip ==
    (Resolved /\ created[last.name].exists /\ ~InRegistry(last.name)
              /\ NoPromptWrapper(created[last.name].text)) =>
        last.out = Returned(PyStr(created[last.name].text))

\* C10: for a name in both tiers the content lookup and the path lookup both
\* take the user-local template, so both resolve the name to the same tier.
C10_UserFirstBoth ==
    (last.op \in {"get_template_content", "get_template_path"}
        /\ InRegistry(last.name) /\ InUserDir(last.name)) =>
        /\ last.tier = "user"
        /\ get_template_content(registry, userFiles, last.name, FALSE).tier
               = PathTier(registry, userFiles, last.name)

(***************************************************************************)
(* Claims about listing and an unavailable registry                        *)
(***************************************************************************)
Listed == last.op = "list_templates"
UserNames == {n \in Names : dirExists /\ userFiles[n].exists}
SystemNames == {n \in Names : registry[n].exists}
Increasing(xs) == \A i, j \in DOMAIN xs : i < j => Rank(xs[i]) < Rank(xs[j])

\* C11: list_templates returns the names of the user directory and of the
\* registry, each once, in increasing order, and does not fail, with or
\* without the user directory.
C11_ListIsSortedUnion ==
    Listed =>
        /\ last.out.status = "ok"
        /\ last.out.val.t = "list"
        /\ Elements(last.out.val.s) = UserNames \cup SystemNames
        /\ Increasing(last.out.val.s)

\* C12: with the registry unavailable no operation raises what the registry
\* raised: list_templates returns the user-local names, a lookup of a
\* user-local template is served, and a run with a literal -s text has that
\* text as its system prompt.
C12_RegistryFailureContained ==
    ~registryUp =>
        /\ last.out.status # "Exception"
        /\ Listed =>
               /\ last.out.status = "ok"
               /\ Elements(last.out.val.s) = UserNames
        /\ (last.op = "build_llm_params" /\ last.name = Literal) =>
               last.out = Returned(PyStr(TextOf(Literal)))
        /\ (Resolved /\ InUserDir(last.name)) => ~NotFound(last.out, last.name)

(***************************************************************************)
(* Claims about the user store                                             *)
(***************************************************************************)
\* C13: the user store holds for each name exactly the document written by
\* the last create_template of that name, and nothing for a name never
\* created; so a create leaves the other names as they were and a repeated
\* create changes nothing.
C13_LastCreateWins ==
    /\ \A n \in Names :
          userFiles[n] = IF created[n].exists
                         THEN File(WrittenText(created[n].text))
                         ELSE Absent
    /\ last.op = "create_template" =>
          userFiles[last.name] = File(WrittenText(last.content))

C13_Witness ==
    /\ last.op = "create_template"
    /\ last.prior.exists
    /\ last.prior.text # <<>>
    /\ last.prior.text # WrittenText(last.content)
    /\ userFiles[last.name] = File(WrittenText(last.content))
    /\ \E n \in Names : n # last.name /\ userFiles[n].exists

PathLookupMadeCopy ==
    /\ last' # last
    /\ last'.op = "get_template_path"
    /\ last'.path.kind = "temp"

\* C14: a step changes the user store only if it is a create_template; and
\* the temp copy a path lookup returns is a new file at a path handed out by
\* no lookup before, holding the system document, outside the user store.
C14_OnlyCreateWrites ==
    [][ /\ userFiles' # userFiles =>
               /\ last'.op = "create_template"
               /\ \A n \in Names : n # last'.name => userFiles'[n] = userFiles[n]
        /\ PathLookupMadeCopy =>
               /\ timers[last'.path.id] = "none"
               /\ ~tempFiles[last'.path.id].exists
               /\ tempFiles'[last'.path.id] = File(registry[last'.name].text)
               /\ \A p \in TempIds : p # last'.path.id => tempFiles'[p] = tempFiles[p]
               /\ userFiles' = userFiles
      ]_vars

C14_Witness ==
    /\ last.op = "get_template_path"
    /\ last.path.kind = "temp"
    /\ tempFiles[last.path.id].exists
    /\ \E p \in TempIds : p # last.path.id /\ tempFiles[p].exists
    /\ \E n \in Names : userFiles[n].exists

(***************************************************************************)
(* Claims about the temp copies and their deletion threads                 *)
(***************************************************************************)
\* C15: the temp copy of a path lookup exists, with its timer still asleep,
\* when the lookup returns, and every temp copy is eventually deleted,
\* whatever the caller and the main flow do.
C15_EventuallyDeleted ==
    /\ [][PathLookupMadeCopy =>
              /\ tempFiles'[last'.path.id].exists
              /\ timers'[last'.path.id] = "sleeping"]_vars
    /\ \A p \in TempIds : tempFiles[p].exists ~> ~tempFiles[p].exists

TimerStates == {"none", "sleeping", "unlinking", "done", "swallowed"}
Ended(p) == timers[p] \in {"done", "swallowed"}

\* C16: no deletion thread ends in an exception, whenever its path was
\* removed; a thread that ended leaves its path removed, and the caller's
\* result is none of its errors.
C16_TimerNeverRaises ==
    /\ \A p \in TempIds :
          /\ timers[p] \in TimerStates
          /\ Ended(p) => ~tempFiles[p].exists
    /\ last.out.status \in {"ok", "pending"}

C16_Witness ==
    /\ \E p \in TempIds : timers[p] = "swallowed"
    /\ \E p \in TempIds : timers[p] = "done"
    /\ last.op = "get_template_path"

TimerStep == timers' # timers /\ last' = last

\* C17: a path lookup that makes a copy starts exactly one timer, for a path
\* no other copy or timer has; a step of a timer changes no file but the one
\* of its own path, and no user-local template.
C17_TimersIndependent ==
    [][ /\ PathLookupMadeCopy =>
               /\ timers[last'.path.id] = "none"
               /\ timers' = [timers EXCEPT ![last'.path.id] = "sleeping"]
        /\ TimerStep =>
               \E p \in TempIds :
                   /\ timers[p] # "none"
                   /\ \A q \in TempIds \ {p} :
                         timers'[q] = timers[q] /\ tempFiles'[q] = tempFiles[q]
                   /\ userFiles' = userFiles
      ]_vars

C17_Witness ==
    \E p, q \in TempIds :
        /\ p # q
        /\ timers[p] = "done" /\ ~tempFiles[p].exists
        /\ timers[q] = "sleeping" /\ tempFiles[q].exists
        /\ \E n \in Names : userFiles[n].exists
====
